---- MODULE Spec2Model ----
(***************************************************************************)
(* State-machine model of src/ui.py (the Flet voice/typed task front end   *)
(* of Open-AutoGLM).                                                        *)
(*                                                                         *)
(* The handlers run on one asyncio event loop: a handler runs without      *)
(* interruption from one await to the next, so every action below is one   *)
(* such segment.  Work handed to asyncio.to_thread (agent.step,            *)
(* transcribe_audio) and the PortAudio callback (audio_callback) run on    *)
(* other threads and are separate actions.                                 *)
(*                                                                         *)
(* The add_log calls are kept per originator: tasks[t].log holds the lines *)
(* written by send_message and run_agent_task for task t, recs[r].log the  *)
(* lines written by on_voice_click and transcribe_audio for recording r,   *)
(* each in call order.  The calls made to the agent are kept per task in   *)
(* tasks[t].calls.  The order of lines of different originators is stated  *)
(* through the step that writes them (see TaskEmits, RecEmits).             *)
(***************************************************************************)
EXTENDS Naturals, Sequences, FiniteSets

----------------------------------------------------------------------------
(* Bounds of the model *)

\* number of tasks that send_message may schedule
MaxTasks == 2
\* number of times the start branch of on_voice_click may run
MaxRecs == 2
\* number of agent.step calls one task may make
MaxSteps == 2
\* number of chunks the audio driver may deliver in all
MaxChunks == 2

TaskIds == 1..MaxTasks
RecIds == 1..MaxRecs

\* Texts are sequences of characters; " " stands for any whitespace.
Texts == { <<>>, <<" ">>, <<" ", "a", " ">> }

\* the failures of requests.post / raise_for_status
AsrErrors == { "network", "authorization" }

----------------------------------------------------------------------------
(* str.strip() *)

IsSpace(c) == c = " "

RECURSIVE lstrip(_)
lstrip(s) == IF s # <<>> /\ IsSpace(Head(s)) THEN lstrip(Tail(s)) ELSE s

RECURSIVE rstrip(_)
rstrip(s) ==
    IF s # <<>> /\ IsSpace(s[Len(s)]) THEN rstrip(SubSeq(s, 1, Len(s) - 1)) ELSE s

\* a strip that strips nothing
strip_identity(s) == s

strip(s) == rstrip(lstrip(s))

----------------------------------------------------------------------------
VARIABLES
    is_recording,     \* state["is_recording"]
    stream,           \* state["stream"]: the id of the stream, 0 = key absent
    streams,          \* the input streams ever constructed, by id
    recording_data,   \* the list recording_data: chunks <<stream id, n>>
    wav_file,         \* content of <tmp>/voice_input.wav
    input_value,      \* input_field.value
    voice_disabled,   \* voice_button.disabled
    tasks,            \* the run_agent_task coroutines, by id
    recs,             \* the recordings (start clicks of the voice button), by id
    agent_terminal    \* agent.step has returned finished=true or raised since
                      \* the last agent.reset

vars == << is_recording, stream, streams, recording_data, wav_file, input_value,
           voice_disabled, tasks, recs, agent_terminal >>

\* one add_log call: the kind of line, its text, the step it reports
Ev(kind, text, k) == [kind |-> kind, text |-> text, k |-> k]

\* one call to the agent
Call(op, arg) == [op |-> op, arg |-> arg]

\* the argument of agent.step() called without a task
NoArg == << "none" >>

NoTask == [pc |-> "none", text |-> <<>>, origin |-> 0, steps |-> 0,
           log |-> <<>>, calls |-> <<>>]

NoRec == [pc |-> "none", audio |-> <<>>, sent |-> <<>>, asr_calls |-> 0,
          text |-> <<>>, why |-> "none", log |-> <<>>]

NoStream == [status |-> "none", delivered |-> 0, closes |-> 0]

Init ==
    /\ is_recording = FALSE
    /\ stream = 0
    /\ streams = [s \in RecIds |-> NoStream]
    /\ recording_data = <<>>
    /\ wav_file = <<>>
    /\ input_value = <<>>
    /\ voice_disabled = FALSE
    /\ tasks = [t \in TaskIds |-> NoTask]
    /\ recs = [r \in RecIds |-> NoRec]
    /\ agent_terminal = FALSE

\* ids are handed out in order
NextTask == Cardinality({t \in TaskIds : tasks[t].pc # "none"}) + 1
NextRec == Cardinality({r \in RecIds : recs[r].pc # "none"}) + 1

----------------------------------------------------------------------------
(* send_message: the effect on the scheduled coroutines and on the input   *)
(* field of one call with input_field.value = val; r is the recording the  *)
(* text came from, 0 for typed text.                                       *)

SendAccepts(val) == strip(val) # <<>>

SendTasks(val, r) ==
    IF SendAccepts(val)
    THEN [tasks EXCEPT ![NextTask] =
             [pc |-> "scheduled", text |-> strip(val), origin |-> r, steps |-> 0,
              log |-> << Ev("You", strip(val), 0) >>, calls |-> <<>>]]
    ELSE tasks

SendInput(val) == IF SendAccepts(val) THEN <<>> ELSE val

\* recordings whose text may still reach send_message
PendingRecs ==
    Cardinality({r \in RecIds : recs[r].pc \in {"recording", "asr_sent", "asr_back"}})

\* a task id is left for this call and for every pending recording
TaskIdFree == NextTask + PendingRecs <= MaxTasks

\* the send button or Enter in the input field, the field holding v
send_message(v) ==
    /\ SendAccepts(v) => TaskIdFree
    /\ input_value' = SendInput(v)
    /\ tasks' = SendTasks(v, 0)
    /\ UNCHANGED << is_recording, stream, streams, recording_data, wav_file,
                    voice_disabled, recs, agent_terminal >>

----------------------------------------------------------------------------
(* run_agent_task *)

\* run_agent_task with lines 84 and 86 exchanged: agent.step(task) is issued
\* before agent.reset()
run_agent_task_begin_step_first(t, reset_ok) ==
    /\ tasks[t].pc = "scheduled"
    /\ tasks' = [tasks EXCEPT
          ![t].pc = IF reset_ok THEN "stepping" ELSE "failed",
          ![t].steps = 1,
          ![t].log = @ \o << Ev("Starting", tasks[t].text, 0),
                             IF reset_ok THEN Ev("ThinkingDots", <<>>, 0)
                                         ELSE Ev("Error", <<>>, 0) >>,
          ![t].calls = @ \o << Call("step", tasks[t].text),
                               Call("reset", NoArg) >>]
    /\ agent_terminal' = FALSE
    /\ UNCHANGED << is_recording, stream, streams, recording_data, wav_file,
                    input_value, voice_disabled, recs >>

\* lines 82-86: up to the first await; agent.reset() returns or raises
run_agent_task_begin(t, reset_ok) ==
    /\ tasks[t].pc = "scheduled"
    /\ IF reset_ok
       THEN /\ tasks' = [tasks EXCEPT
                  ![t].pc = "stepping",
                  ![t].steps = 1,
                  ![t].log = @ \o << Ev("Starting", tasks[t].text, 0),
                                     Ev("ThinkingDots", <<>>, 0) >>,
                  ![t].calls = @ \o << Call("reset", NoArg),
                                       Call("step", tasks[t].text) >>]
            /\ agent_terminal' = FALSE
       ELSE /\ tasks' = [tasks EXCEPT
                  ![t].pc = "failed",
                  ![t].log = @ \o << Ev("Starting", tasks[t].text, 0),
                                     Ev("Error", <<>>, 0) >>,
                  ![t].calls = Append(@, Call("reset", NoArg))]
            /\ UNCHANGED agent_terminal
    /\ UNCHANGED << is_recording, stream, streams, recording_data, wav_file,
                    input_value, voice_disabled, recs >>

\* the log lines of the k-th step result: lines 88-89
StepLog(k) == << Ev("Thinking", <<>>, k), Ev("Acting", <<>>, k) >>

\* run_agent_task without the break at line 90: after a finished result the
\* loop goes on to the next agent.step()
run_agent_task_resume_no_break(t, outcome) ==
    /\ tasks[t].pc = "stepping"
    /\ LET k == tasks[t].steps
       IN CASE outcome = "raised" ->
                 /\ tasks' = [tasks EXCEPT
                       ![t].pc = "failed",
                       ![t].log = Append(@, Ev("Error", <<>>, 0))]
                 /\ agent_terminal' = TRUE
            [] outcome = "finished" ->
                 /\ tasks' = [tasks EXCEPT
                       ![t].pc = IF k < MaxSteps THEN "stepping" ELSE "finished",
                       ![t].steps = IF k < MaxSteps THEN k + 1 ELSE k,
                       ![t].log = (@ \o StepLog(k)) \o << Ev("Finished", <<>>, k) >>,
                       ![t].calls = IF k < MaxSteps
                                    THEN Append(@, Call("step", NoArg)) ELSE @]
                 /\ agent_terminal' = TRUE
            [] outcome = "more" ->
                 /\ k < MaxSteps
                 /\ tasks' = [tasks EXCEPT
                       ![t].steps = k + 1,
                       ![t].log = @ \o StepLog(k),
                       ![t].calls = Append(@, Call("step", NoArg))]
                 /\ UNCHANGED agent_terminal
    /\ UNCHANGED << is_recording, stream, streams, recording_data, wav_file,
                    input_value, voice_disabled, recs >>

\* lines 87-94: agent.step has returned (finished or not) or raised
run_agent_task_resume(t, outcome) ==
    /\ tasks[t].pc = "stepping"
    /\ LET k == tasks[t].steps
       IN CASE outcome = "raised" ->
                 /\ tasks' = [tasks EXCEPT
                       ![t].pc = "failed",
                       ![t].log = Append(@, Ev("Error", <<>>, 0))]
                 /\ agent_terminal' = TRUE
            [] outcome = "finished" ->
                 /\ tasks' = [tasks EXCEPT
                       ![t].pc = "finished",
                       ![t].log = (@ \o StepLog(k)) \o << Ev("Finished", <<>>, k) >>]
                 /\ agent_terminal' = TRUE
            [] outcome = "more" ->
                 /\ k < MaxSteps
                 /\ tasks' = [tasks EXCEPT
                       ![t].steps = k + 1,
                       ![t].log = @ \o StepLog(k),
                       ![t].calls = Append(@, Call("step", NoArg))]
                 /\ UNCHANGED agent_terminal
    /\ UNCHANGED << is_recording, stream, streams, recording_data, wav_file,
                    input_value, voice_disabled, recs >>

----------------------------------------------------------------------------
(* on_voice_click, audio_callback, transcribe_audio *)

\* lines 144-159: the branch taken when state["is_recording"] is false.
\* outcome: "ok"; "device_error", sd.query_devices or sd.InputStream raises;
\* "start_error", the stream is constructed and stream.start() raises.
on_voice_click_start(outcome) ==
    /\ ~is_recording
    /\ NextRec <= MaxRecs
    /\ TaskIdFree
    /\ LET r == NextRec
       IN /\ recording_data' = <<>>
          /\ CASE outcome = "ok" ->
                    /\ is_recording' = TRUE
                    /\ stream' = r
                    /\ streams' = [streams EXCEPT ![r].status = "active"]
                    /\ recs' = [recs EXCEPT
                          ![r].pc = "recording",
                          ![r].log = << Ev("Listening", <<>>, 0) >>]
               [] outcome = "device_error" ->
                    /\ is_recording' = FALSE
                    /\ UNCHANGED << stream, streams >>
                    /\ recs' = [recs EXCEPT
                          ![r].pc = "start_failed",
                          ![r].log = << Ev("Error", <<>>, 0) >>]
               [] outcome = "start_error" ->
                    /\ is_recording' = FALSE
                    /\ stream' = r
                    /\ streams' = [streams EXCEPT ![r].status = "open"]
                    /\ recs' = [recs EXCEPT
                          ![r].pc = "start_failed",
                          ![r].log = << Ev("Error", <<>>, 0) >>]
    /\ UNCHANGED << wav_file, input_value, voice_disabled, tasks, agent_terminal >>

\* the number of chunks delivered by the streams 1..n
RECURSIVE Delivered(_)
Delivered(n) == IF n = 0 THEN 0 ELSE Delivered(n - 1) + streams[n].delivered

\* lines 140-141, called by PortAudio while stream s is active
audio_callback(s) ==
    /\ streams[s].status = "active"
    /\ Delivered(MaxRecs) < MaxChunks
    /\ recording_data' = Append(recording_data, << s, streams[s].delivered + 1 >>)
    /\ streams' = [streams EXCEPT ![s].delivered = @ + 1]
    /\ UNCHANGED << is_recording, stream, wav_file, input_value, voice_disabled,
                    tasks, recs, agent_terminal >>

\* the recording the stop branch works on
CurrentRec == CHOOSE r \in RecIds : recs[r].pc = "recording"

\* stream.stop() and stream.close(), lines 164-166: a call that raises leaves
\* the stream as it was
StreamsAfterStop(outcome) ==
    IF stream = 0 THEN streams
    ELSE CASE outcome = "ok" ->
                [streams EXCEPT ![stream].status = "closed", ![stream].closes = @ + 1]
           [] outcome = "stop_error" -> streams
           [] outcome = "close_error" -> [streams EXCEPT ![stream].status = "stopped"]

\* lines 160-176 and 183-186: the branch taken when state["is_recording"] is
\* true, up to the await of the transcription
on_voice_click_stop(outcome) ==
    /\ is_recording
    /\ outcome # "ok" => stream # 0
    /\ LET r == CurrentRec
       IN /\ streams' = StreamsAfterStop(outcome)
          /\ is_recording' = FALSE
          /\ voice_disabled' = FALSE
          /\ IF outcome # "ok"
             THEN /\ recs' = [recs EXCEPT
                        ![r].pc = "stop_failed",
                        ![r].log = Append(@, Ev("Error", <<>>, 0))]
                  /\ UNCHANGED wav_file
             ELSE IF recording_data # <<>>
             THEN /\ wav_file' = recording_data
                  /\ recs' = [recs EXCEPT
                        ![r].pc = "asr_sent",
                        ![r].audio = recording_data,
                        ![r].asr_calls = @ + 1,
                        ![r].log = Append(@, Ev("Transcribing", <<>>, 0))]
             ELSE /\ recs' = [recs EXCEPT ![r].pc = "empty"]
                  /\ UNCHANGED wav_file
    /\ UNCHANGED << stream, recording_data, input_value, tasks, agent_terminal >>

\* The results of the request of lines 74-76: the text of the response, or the
\* error raised
AsrResults ==
    [text : Texts, why : {"none"}] \cup [text : {<<>>}, why : AsrErrors]

\* a transcribe_audio that returns the text of the error instead of ""
transcribe_audio_error_text(r, res) ==
    /\ recs[r].pc = "asr_sent"
    /\ recs' = [recs EXCEPT
          ![r].pc = "asr_back",
          ![r].sent = wav_file,
          ![r].text = IF res.why = "none" THEN res.text ELSE << res.why >>,
          ![r].why = res.why,
          ![r].log = IF res.why = "none" THEN @
                     ELSE Append(@, Ev("ASRError", << res.why >>, 0))]
    /\ UNCHANGED << is_recording, stream, streams, recording_data, wav_file,
                    input_value, voice_disabled, tasks, agent_terminal >>

\* lines 66-79, on the worker thread: the file is read and posted; the
\* response carries text, or the request raises and transcribe_audio logs the
\* error and returns ""
transcribe_audio(r, res) ==
    /\ recs[r].pc = "asr_sent"
    /\ recs' = [recs EXCEPT
          ![r].pc = "asr_back",
          ![r].sent = wav_file,
          ![r].text = res.text,
          ![r].why = res.why,
          ![r].log = IF res.why = "none" THEN @
                     ELSE Append(@, Ev("ASRError", << res.why >>, 0))]
    /\ UNCHANGED << is_recording, stream, streams, recording_data, wav_file,
                    input_value, voice_disabled, tasks, agent_terminal >>

\* lines 177-182 and 187: on_voice_click after the await
on_voice_click_resume(r) ==
    /\ recs[r].pc = "asr_back"
    /\ LET text == recs[r].text
       IN IF text # <<>>
          THEN /\ input_value' = SendInput(text)
               /\ tasks' = SendTasks(text, r)
               /\ recs' = [recs EXCEPT
                     ![r].pc = "done",
                     ![r].log = Append(@, Ev("Transcript", text, 0))]
          ELSE /\ recs' = [recs EXCEPT
                     ![r].pc = "done",
                     ![r].log = Append(@, Ev("Failed", <<>>, 0))]
               /\ UNCHANGED << input_value, tasks >>
    /\ UNCHANGED << is_recording, stream, streams, recording_data, wav_file,
                    voice_disabled, agent_terminal >>

----------------------------------------------------------------------------
Next ==
    \/ \E v \in Texts : send_message(v)
    \/ \E t \in TaskIds, reset_ok \in BOOLEAN : run_agent_task_begin(t, reset_ok)
    \/ \E t \in TaskIds, outcome \in {"more", "finished", "raised"} :
           run_agent_task_resume(t, outcome)
    \/ \E outcome \in {"ok", "device_error", "start_error"} :
           on_voice_click_start(outcome)
    \/ \E s \in RecIds : audio_callback(s)
    \/ \E outcome \in {"ok", "stop_error", "close_error"} :
           on_voice_click_stop(outcome)
    \/ \E r \in RecIds, res \in AsrResults : transcribe_audio(r, res)
    \/ \E r \in RecIds : on_voice_click_resume(r)

Spec == Init /\ [][Next]_vars

\* Agent calls and worker threads complete: the event loop runs every ready
\* coroutine, and a call handed to asyncio.to_thread returns or raises.  The
\* user's clicks and the audio driver are under no obligation.
Internal ==
    \/ \E t \in TaskIds, reset_ok \in BOOLEAN : run_agent_task_begin(t, reset_ok)
    \/ \E t \in TaskIds, outcome \in {"more", "finished", "raised"} :
           run_agent_task_resume(t, outcome)
    \/ \E r \in RecIds, res \in AsrResults : transcribe_audio(r, res)
    \/ \E r \in RecIds : on_voice_click_resume(r)

FairSpec == Init /\ [][Next]_vars /\ WF_vars(Internal)

----------------------------------------------------------------------------
(* The orchestrator state of the specification, read off the program state *)

ActiveTask(t) == tasks[t].pc \in {"scheduled", "stepping"}
ActiveAsr(r) == recs[r].pc \in {"asr_sent", "asr_back"}

Recording == is_recording
Transcribing == \E r \in RecIds : ActiveAsr(r)
Running == \E t \in TaskIds : ActiveTask(t)

Idle == ~Recording /\ ~Transcribing /\ ~Running /\ ~voice_disabled

\* The kinds of log line that are events of the specification: Started is the
\* "Starting:" line, Thinking and Acting the two lines of a step result,
\* Finished the final line; "Error", "Failed" and "ASRError" are the failure
\* events.  The echo of the submitted text ("You"), the echo of the transcript
\* ("Transcript") and the placeholder "Thinking..." written before the first
\* step ("ThinkingDots") are no events of the specification.
FailureKinds == {"Error", "Failed", "ASRError"}
EventKinds ==
    {"Listening", "Transcribing", "Starting", "Thinking", "Acting", "Finished"}
        \cup FailureKinds

IsEvent(e) == e.kind \in EventKinds
IsFailure(e) == e.kind \in FailureKinds

Events(lg) == SelectSeq(lg, IsEvent)
Failures(lg) == SelectSeq(lg, IsFailure)

\* the events of task t, those of the recording it came from included
TaskEvents(t) ==
    (IF tasks[t].origin = 0 THEN <<>> ELSE Events(recs[tasks[t].origin].log))
        \o Events(tasks[t].log)

RECURSIVE Pairs(_)
Pairs(n) ==
    IF n = 0 THEN <<>>
    ELSE Pairs(n - 1) \o << Ev("Thinking", <<>>, n), Ev("Acting", <<>>, n) >>

\* the event sequence the specification gives a successful task of n steps
SuccessEvents(t, n) ==
    (IF tasks[t].origin = 0 THEN <<>>
     ELSE << Ev("Listening", <<>>, 0), Ev("Transcribing", <<>>, 0) >>)
        \o << Ev("Starting", tasks[t].text, 0) >>
        \o Pairs(n)
        \o << Ev("Finished", <<>>, n) >>

\* the step writes an event for task t / for recording r
TaskEmits(t) == Len(Events(tasks'[t].log)) > Len(Events(tasks[t].log))
RecEmits(r) == Len(Events(recs'[r].log)) > Len(Events(recs[r].log))

----------------------------------------------------------------------------
(* C1 *)

\* The event sequence of a successful task alone (without the final state):
\* Listening?, Transcribing?, Started(text), (Thinking, Acting)+, Finished.
SuccessfulTaskEvents ==
    \A t \in TaskIds :
        tasks[t].pc = "finished" =>
            /\ tasks[t].steps >= 1
            /\ TaskEvents(t) = SuccessEvents(t, tasks[t].steps)

\* C1: the events of every task that ends successfully are Listening?,
\* Transcribing?, Started(text), (Thinking, Acting)+ in step order, Finished,
\* and when Finished has been emitted the orchestrator is Idle.
C1_SuccessfulTaskThenIdle ==
    /\ [] SuccessfulTaskEvents
    /\ [][\A t \in TaskIds :
            (tasks[t].pc # "finished" /\ tasks'[t].pc = "finished") => Idle']_vars

----------------------------------------------------------------------------
(* C2 *)

\* A unit of work is a typed task, or a recording together with the task its
\* transcript starts.
UnitOfTask(t) ==
    IF tasks[t].origin = 0 THEN << "task", t >> ELSE << "rec", tasks[t].origin >>

\* the units that have emitted an event and not yet their terminal event
InFlight ==
    { UnitOfTask(t) : t \in { x \in TaskIds :
          ActiveTask(x) /\ (tasks[x].origin # 0 \/ tasks[x].pc = "stepping") } }
        \cup { << "rec", r >> : r \in { x \in RecIds :
                   recs[x].pc = "recording" \/ ActiveAsr(x) } }

\* C2: no event of a task is emitted while another task, begun earlier, has
\* not emitted its terminal event.
C2_OneTaskInFlight ==
    [][ /\ \A t \in TaskIds :
              TaskEmits(t) => \A u \in InFlight : u = UnitOfTask(t)
        /\ \A r \in RecIds :
              RecEmits(r) => \A u \in InFlight : u = << "rec", r >> ]_vars

----------------------------------------------------------------------------
(* C3 *)

SubmitTakesEffect ==
    \E t \in TaskIds :
        tasks[t].pc = "none" /\ tasks'[t].pc = "scheduled" /\ tasks'[t].origin = 0

StartTakesEffect == \E r \in RecIds : recs[r].pc = "none" /\ recs'[r].pc # "none"

StopTakesEffect == \E r \in RecIds : recs[r].pc = "recording" /\ recs'[r].pc # "recording"

\* C3: SubmitTask and StartRecording take effect only from Idle and
\* StopRecording only from Recording; from any other state the operation
\* changes nothing.
C3_TransitionTable ==
    [][ /\ SubmitTakesEffect => Idle
        /\ StartTakesEffect => Idle
        /\ StopTakesEffect => (Recording /\ ~Transcribing /\ ~Running) ]_vars

----------------------------------------------------------------------------
(* C4 *)

\* the number of recordings and tasks that have failed
FailCount ==
    Cardinality({ t \in TaskIds : tasks[t].pc = "failed" })
        + Cardinality({ r \in RecIds :
              \/ recs[r].pc \in {"start_failed", "stop_failed"}
              \/ Failures(recs[r].log) # <<>> })

\* What the except blocks do by themselves: a start or stop that raises
\* leaves is_recording false and the voice button enabled, and a task whose
\* agent call raises is no longer scheduled or stepping.
FailureResetsOwnStage ==
    [][ /\ \A r \in RecIds :
              (recs[r].pc # recs'[r].pc
                  /\ recs'[r].pc \in {"start_failed", "stop_failed"}) =>
                  (~is_recording' /\ ~voice_disabled')
        /\ \A r \in RecIds :
              Len(Failures(recs'[r].log)) > Len(Failures(recs[r].log)) =>
                  ~voice_disabled'
        /\ \A t \in TaskIds :
              Len(Failures(tasks'[t].log)) > Len(Failures(tasks[t].log)) =>
                  ~ActiveTask(t)' ]_vars

\* C4: after every failure (device error at start, error at stop, failed or
\* empty transcription, exception of agent.reset or agent.step) the
\* orchestrator is Idle again at some later time, without any further click.
C4_IdleAfterFailure ==
    \A n \in 1..(MaxTasks + MaxRecs) :
        <>(FailCount >= n) => <>(Idle /\ FailCount >= n)

----------------------------------------------------------------------------
(* C5 *)

\* C5: every input stream that was opened is released exactly once, unless
\* it is the stream of the recording in progress: none is left open and none
\* is closed twice.
C5_StreamReleasedOnce ==
    \A s \in RecIds :
        /\ streams[s].closes <= 1
        /\ streams[s].status \in {"open", "active", "stopped"} =>
               (is_recording /\ stream = s)
        /\ streams[s].status = "closed" => streams[s].closes = 1

----------------------------------------------------------------------------
(* C6 *)

AsrFailed(r) == recs[r].why # "none" /\ recs[r].pc \in {"asr_back", "done"}

NoTaskOf(r) == \A t \in TaskIds : tasks[t].pc # "none" => tasks[t].origin # r

----------------------------------------------------------------------------
(* C7 *)

\* the stop branch ran to its end with no chunk in recording_data
ZeroChunkStop(r) == recs[r].pc = "recording" /\ recs'[r].pc = "empty"

\* Stopping with zero chunks alone (without the final state): no call of
\* transcribe_audio, no log line, no task.
ZeroChunkStopSilent ==
    [][\A r \in RecIds :
          ZeroChunkStop(r) =>
              /\ recs'[r].asr_calls = 0
              /\ recs'[r].log = recs[r].log
              /\ tasks' = tasks
              /\ ~is_recording' /\ ~voice_disabled']_vars

\* C7: stopping a recording with zero chunks calls transcribe_audio not at
\* all, emits no event, and leaves the orchestrator Idle.
C7_ZeroChunkStopIdle ==
    [][\A r \in RecIds :
          ZeroChunkStop(r) =>
              /\ recs'[r].asr_calls = 0
              /\ recs'[r].log = recs[r].log
              /\ tasks' = tasks
              /\ Idle']_vars

----------------------------------------------------------------------------
(* C8 *)

\* text that is empty or all whitespace
IsBlank(v) == \A i \in 1..Len(v) : v[i] = " "

\* C8: send_message with empty or whitespace-only text, from Idle, writes no
\* log line, schedules no task (so makes no agent call) and leaves the
\* orchestrator Idle.
C8_BlankSubmit ==
    [][\A v \in Texts :
          (Idle /\ IsBlank(v) /\ send_message(v)) =>
              /\ tasks' = tasks
              /\ recs' = recs
              /\ agent_terminal' = agent_terminal
              /\ Idle']_vars

\* the case of C8: whitespace-only text was submitted from Idle, first thing
C8_Witness ==
    /\ input_value = << " " >>
    /\ Idle
    /\ \A t \in TaskIds : tasks[t].pc = "none"
    /\ \A r \in RecIds : recs[r].pc = "none"

----------------------------------------------------------------------------
(* C9 *)

\* task t calls agent.step again (lines 90-91)
StepsAgain(t) ==
    tasks[t].pc = "stepping" /\ tasks'[t].steps = tasks[t].steps + 1

\* C9: agent.step is not called after a step has returned finished=true or
\* raised, unless agent.reset was called in between.
C9_NoStepAfterTerminal ==
    [][\A t \in TaskIds : StepsAgain(t) => ~agent_terminal]_vars

----------------------------------------------------------------------------
(* C11 *)

\* the calls task t has made on the agent are, in order: reset, step with the
\* task's text, then steps without text
CallsInOrder(t) ==
    LET cs == tasks[t].calls
    IN \A i \in 1..Len(cs) :
          CASE i = 1 -> cs[i] = Call("reset", NoArg)
            [] i = 2 -> cs[i] = Call("step", tasks[t].text)
            [] OTHER -> cs[i] = Call("step", NoArg)

\* C11: for every submitted task, agent.reset() is called before the task's
\* first agent.step, the first step call is given the task text, and every
\* later step call of that task is given no text.
C11_ResetThenStepWithText ==
    \A t \in TaskIds :
        /\ CallsInOrder(t)
        /\ tasks[t].pc \in {"stepping", "finished"} => Len(tasks[t].calls) >= 2
        /\ tasks[t].pc \in {"none", "scheduled"} => tasks[t].calls = <<>>

\* a task that has made its first step with its text and a later one without
C11_Witness ==
    \E t \in TaskIds :
        /\ tasks[t].text = << "a" >>
        /\ tasks[t].calls = << Call("reset", NoArg), Call("step", << "a" >>),
                               Call("step", NoArg) >>

----------------------------------------------------------------------------
(* C12 *)

\* the tasks submitted by the handler of recording r (line 180)
TasksOf(r) == {t \in TaskIds : tasks[t].pc # "none" /\ tasks[t].origin = r}

\* the handler of recording r has run to its end after a transcription
Transcribed(r) == recs[r].pc = "done"

\* C12: a stop that captured at least one chunk ends in exactly one of two
\* outcomes: a transcription failure event and no task, or exactly one task
\* whose text is the trimmed transcription; an empty or whitespace-only
\* transcription yields the failure event, never silence.
C12_FailedOrStarted ==
    \A r \in RecIds :
        Transcribed(r) =>
            \/ /\ Failures(recs[r].log) # <<>>
               /\ TasksOf(r) = {}
            \/ /\ Failures(recs[r].log) = <<>>
               /\ Cardinality(TasksOf(r)) = 1
               /\ \A t \in TasksOf(r) : tasks[t].text = strip(recs[r].text)

----------------------------------------------------------------------------
(* C13 *)

\* an agent.step call of task t is running in a worker thread (lines 86, 91)
StepInFlight(t) == tasks[t].pc = "stepping"

\* task t calls agent.reset or agent.step in this step
CallsAgent(t) == Len(tasks'[t].calls) > Len(tasks[t].calls)

\* C13: at most one agent.step call is in flight at any time: no task calls
\* agent.reset or agent.step while a step call of another task is running.
C13_OneStepInFlight ==
    [][\A t \in TaskIds :
          CallsAgent(t) => \A u \in TaskIds \ {t} : ~StepInFlight(u)]_vars

----------------------------------------------------------------------------
(* C14 *)

\* C14: the audio a transcription call reads is the audio of the recording
\* whose stop triggered it: while the call of recording r is outstanding the
\* file still holds r's audio, and what the call has read is r's audio.
C14_TranscribesOwnAudio ==
    \A r \in RecIds :
        /\ recs[r].pc = "asr_sent" => wav_file = recs[r].audio
        /\ recs[r].pc \in {"asr_back", "done"} => recs[r].sent = recs[r].audio

----------------------------------------------------------------------------
(* C15 *)

\* the chunks the stream of recording r has delivered, in arrival order
OwnChunks(r) == [i \in 1..streams[r].delivered |-> << r, i >>]

\* the stop of recording r has read the chunks (line 172)
ChunksRead(r) == recs[r].pc \in {"asr_sent", "asr_back", "done"}

\* C15: the buffer read at the stop of a recording is exactly the chunks its
\* own stream delivered, in arrival order, with no chunk of an earlier
\* session; the stream is closed before the chunks are read, so it delivers
\* nothing afterwards.
C15_BufferIsOwnChunks ==
    \A r \in RecIds :
        ChunksRead(r) =>
            /\ recs[r].audio = OwnChunks(r)
            /\ streams[r].status = "closed"

----------------------------------------------------------------------------
(* C16 *)

\* the terminal events of a task: the Finished line (line 90) and the Error
\* line of the except block (line 94)
IsTerminal(e) == e.kind \in {"Finished", "Error"}

Terminals(t) == SelectSeq(tasks[t].log, IsTerminal)

\* the Starting line of task t has been logged (line 83)
Started(t) == \E i \in 1..Len(tasks[t].log) : tasks[t].log[i].kind = "Starting"

\* task t has emitted its terminal event
Ended(t) == Len(Terminals(t)) = 1

\* at most one terminal event, and it is the last event of the task
OneTerminalLast(t) ==
    LET es == TaskEvents(t)
    IN /\ Len(Terminals(t)) <= 1
       /\ Ended(t) => /\ IsTerminal(es[Len(es)])
                      /\ tasks[t].pc \in {"finished", "failed"}
       /\ tasks[t].pc \in {"finished", "failed"} => Ended(t)

\* C16: every task for which Started is emitted ends with exactly one
\* terminal event: it eventually emits Finished or a failure event, never
\* both, never more than one, and no Thinking or Acting event after it.
C16_ExactlyOneTerminal ==
    /\ [](\A t \in TaskIds : OneTerminalLast(t))
    /\ \A t \in TaskIds : Started(t) ~> Ended(t)

\* a task that finished after a second step, and one that failed
C16_Witness ==
    /\ \E t \in TaskIds :
          /\ tasks[t].pc = "finished" /\ tasks[t].steps = 2
          /\ Len(Terminals(t)) = 1
    /\ \E t \in TaskIds : tasks[t].pc = "failed" /\ Started(t)

----------------------------------------------------------------------------
(* C17 *)

\* an on_voice_click invocation is suspended at its await (line 176)
HandlerExecuting == \E r \in RecIds : ActiveAsr(r)

\* stream s holds the device: constructed and not closed
HoldsDevice(s) == streams[s].status \in {"open", "active", "stopped"}

\* stream s is started and delivers chunks to audio_callback
Delivering(s) == streams[s].status = "active"

\* C17: whenever no on_voice_click invocation is executing, is_recording is
\* true exactly when the stream opened by the most recent start is open and
\* delivering chunks, and no other stream is open or delivering.
C17_FlagMatchesDevice ==
    ~HandlerExecuting =>
        /\ is_recording <=> (stream # 0 /\ Delivering(stream))
        /\ \A s \in RecIds : HoldsDevice(s) => (is_recording /\ s = stream)

====
